---- MODULE Spec2Model ----
(***************************************************************************)
(* OPIC-HITS crawl-frontier backend: the HITS score store (hitsdb.SQLite), *)
(* the OPIC-HITS engine (opichits.OpicHits) and the refresh-frequency      *)
(* store (freqdb.SQLite).                                                  *)
(*                                                                         *)
(* Numbers are exact rationals <<numerator, denominator>> in lowest terms  *)
(* with a positive denominator: the cash-flow arithmetic of the source is  *)
(* evaluated without floating-point rounding.  Page ids are the integers   *)
(* 1..n; their order stands for the string order of the page ids.          *)
(***************************************************************************)
EXTENDS Integers, Sequences, FiniteSets, TLC

(***************************************************************************)
(* Bounds of the model.                                                    *)
(***************************************************************************)
\* page ids of the small engine world
MaxPages == 2
\* update iterations per behaviour of the small engine world
MaxUpdates == 2
\* largest n_iter passed to update
MaxIter == 2
\* entries of the must-update list
MaxMarks == 1
\* engine restarts per behaviour
MaxRestarts == 1
\* page ids of the hub world (one page linked from and to all others)
HubPages == 5
\* update calls per behaviour of the hub world
HubUpdates == 3
\* update calls per behaviour of the window world
WindowUpdates == 2
\* page ids of the must-update world
MarkPages == 12
\* update calls per behaviour of the must-update world
MarkUpdates == 3
\* mark_update calls before an update call made statement by statement in
\* the must-update world
MarkMarks == 2
\* calls of add, set, delete and increase_* per behaviour of the store world
MaxStoreOps == 4
\* page ids of the schedule world
MaxFreqPages == 3
\* calls of add, set and delete per behaviour of the schedule world
MaxFreqOps == 3
\* pages drawn by get_next_pages per behaviour of the schedule world
MaxDraws == 12
\* calls of add, set and delete among the draws
MaxCallOps == 3
\* pages drawn among the calls
MaxCallDraws == 4
\* the largest n of get_next_pages(n)
MaxBatch == 4

(***************************************************************************)
(* Exact rational arithmetic.                                              *)
(***************************************************************************)
Abs(x) == IF x < 0 THEN -x ELSE x

RECURSIVE GCD(_, _)
GCD(a, b) == IF b = 0 THEN a ELSE GCD(b, a % b)

\* n/d in lowest terms, d # 0
Rat(n, d) ==
    LET g == GCD(Abs(n), Abs(d))
        s == IF d < 0 THEN -1 ELSE 1
    IN  <<s * (n \div g), s * (d \div g)>>

Zero == <<0, 1>>
One == <<1, 1>>
Half == <<1, 2>>
FromInt(n) == <<n, 1>>

\* x + y; the set binds a and b to the values of x and y, each computed once
RAdd(x, y) ==
    CHOOSE r \in
        { LET g == GCD(a[2], b[2])
          IN  Rat(a[1] * (b[2] \div g) + b[1] * (a[2] \div g),
                  (a[2] \div g) * b[2]) : a \in {x}, b \in {y} } : TRUE

RNeg(x) == <<-x[1], x[2]>>

RSub(x, y) == RAdd(x, RNeg(y))

RMul(x, y) ==
    LET g1 == GCD(Abs(x[1]), y[2])
        g2 == GCD(Abs(y[1]), x[2])
    IN  Rat((x[1] \div g1) * (y[1] \div g2), (x[2] \div g2) * (y[2] \div g1))

\* x / y, y # 0
RDiv(x, y) ==
    RMul(x, IF y[1] < 0 THEN <<-y[2], -y[1]>> ELSE <<y[2], y[1]>>)

RLt(x, y) == RSub(x, y)[1] < 0
RLe(x, y) == RSub(x, y)[1] <= 0
RGt(x, y) == RLt(y, x)
RGe(x, y) == RLe(y, x)

\* sum of f[p] over the finite set S
RECURSIVE RSum(_, _)
RSum(f, S) ==
    IF S = {} THEN Zero
    ELSE LET p == CHOOSE q \in S : TRUE
         IN  RAdd(f[p], RSum(f, S \ {p}))

(***************************************************************************)
(* hitsdb.HitsScore and the absent values.                                 *)
(***************************************************************************)
\* None where a record is expected
None == [none |-> TRUE]

\* None where a number is expected
NoValue == <<0, 0>>

HitsScore(hh, hc, hl, ah, ac, al) ==
    [h_history |-> hh, h_cash |-> hc, h_last |-> hl,
     a_history |-> ah, a_cash |-> ac, a_last |-> al]


VARIABLES
    \* the world of one behaviour: the page ids in use and the links between them
    ids, web,
    \* graph store (graphdb) and relevance store (relevancedb)
    nodes, edges, relevance,
    \* hitsdb.SQLite: table page_score, the in-memory deltas, table global_increase,
    \* and whether the connection is open
    rows, h_cash_increase, a_cash_increase, global_increase, connected,
    \* opichits.OpicHits
    n_pages, h_total, a_total, to_update, time_window, time, virtual_page, closed,
    \* bookkeeping: update iterations and restarts so far, the smallest amount one hub
    \* or authority step of the last update call added to the clock
    n_upd, n_restart, min_drain,
    \* a naive score store kept beside hitsdb.SQLite, the records read just
    \* before the last close, and the number of store calls so far
    ref, snap, n_ops,
    \* freqdb.SQLite: table page_frequency, the table as it was when its rows
    \* last changed, and per page the number of times
    \* get_next_pages returned it since the rows last changed
    page_frequency, start_frequency, selected,
    \* an update call in progress: its position (idle, loop: at the head of the
    \* loop over iterations, batch: in the loop over mixed), the iterations
    \* left, the local mixed (None while unbound) and the position in it; and
    \* of the last update call: the pages that received a hub update and an
    \* authority update, the number of virtual-page steps of its last
    \* iteration, what it returned (None before it returns), and the engine and
    \* n_iter it was called with
    pc, rounds, mixed, idx, h_done, a_done, v_done, ret, entered,
    \* the engine an update call would leave on the graph as it was before
    \* self-loops were added to it, with the n_iter of the call and the number
    \* of iterations made when it was computed (None when none was computed)
    twin

worldVars == <<ids, web>>
graphVars == <<nodes, edges, relevance>>
storeVars == <<rows, h_cash_increase, a_cash_increase, global_increase, connected>>
engineVars == <<n_pages, h_total, a_total, to_update, time_window, time, virtual_page, closed>>
countVars == <<n_upd, n_restart, min_drain>>
refVars == <<ref, snap, n_ops>>
freqVars == <<page_frequency, start_frequency, selected>>
callVars == <<pc, rounds, mixed, idx, h_done, a_done, v_done, ret, entered>>
vars == <<worldVars, graphVars, storeVars, engineVars, countVars, refVars, freqVars,
          callVars, twin>>

(***************************************************************************)
(* hitsdb.SQLite.  A store value db is [rows, h_inc, a_inc]: the table     *)
(* page_score (page id -> record as stored) and the two in-memory deltas   *)
(* _h_cash_increase and _a_cash_increase.                                  *)
(***************************************************************************)
Db(r, h, a) == [rows |-> r, h_inc |-> h, a_inc |-> a]

DbContains(db, page_id) == page_id \in DOMAIN db.rows

\* a store that writes the record as given
StoredAsGiven(db, page_score) == page_score

\* the record as written to the table: every write subtracts the delta
Stored(db, page_score) ==
    HitsScore(page_score.h_history,
              RSub(page_score.h_cash, db.h_inc),
              page_score.h_last,
              page_score.a_history,
              RSub(page_score.a_cash, db.a_inc),
              page_score.a_last)

\* INSERT OR IGNORE
DbAdd(db, page_id, page_score) ==
    IF page_id \in DOMAIN db.rows THEN db
    ELSE [db EXCEPT !.rows = (page_id :> Stored(db, page_score)) @@ db.rows]

\* every read adds the delta
DbGet(db, page_id) ==
    IF page_id \in DOMAIN db.rows
    THEN LET s == db.rows[page_id]
         IN  HitsScore(s.h_history, RAdd(s.h_cash, db.h_inc), s.h_last,
                       s.a_history, RAdd(s.a_cash, db.a_inc), s.a_last)
    ELSE None

\* UPDATE OR IGNORE ... WHERE page_id=?
DbSet(db, page_id, page_score) ==
    IF page_id \in DOMAIN db.rows
    THEN [db EXCEPT !.rows[page_id] = Stored(db, page_score)]
    ELSE db

DbDelete(db, page_id) ==
    [db EXCEPT !.rows = [p \in DOMAIN db.rows \ {page_id} |-> db.rows[p]]]

\* the rows iteritems yields
DbIterItems(db) ==
    [p \in DOMAIN db.rows |->
        LET s == db.rows[p]
        IN  HitsScore(s.h_history, RAdd(s.h_cash, db.h_inc), s.h_last,
                      s.a_history, RAdd(s.a_cash, db.h_inc), s.a_last)]

Min(a, b) == IF a < b THEN a ELSE b
Max(a, b) == IF a > b THEN a ELSE b

\* ORDER BY h_cash DESC LIMIT n: the sets of rows the query may return (rows of
\* equal cash come in an order the query does not fix)
HighestHSets(db, n) ==
    IF n >= Cardinality(DOMAIN db.rows) THEN {DOMAIN db.rows}
    ELSE {S \in SUBSET DOMAIN db.rows :
            /\ Cardinality(S) = Max(n, 0)
            /\ \A p \in S, q \in DOMAIN db.rows \ S :
                   RGe(db.rows[p].h_cash, db.rows[q].h_cash)}

HighestASets(db, n) ==
    IF n >= Cardinality(DOMAIN db.rows) THEN {DOMAIN db.rows}
    ELSE {S \in SUBSET DOMAIN db.rows :
            /\ Cardinality(S) = Max(n, 0)
            /\ \A p \in S, q \in DOMAIN db.rows \ S :
                   RGe(db.rows[p].a_cash, db.rows[q].a_cash)}

\* get_highest_h_cash answering with the cash as the column holds it
GetHighestHCashRaw(db, n) ==
    LET S == CHOOSE T \in HighestHSets(db, n) : TRUE
    IN  {<<p, db.rows[p].h_cash>> : p \in S}

\* the (page id, cash) pairs of one admissible answer
GetHighestHCash(db, n) ==
    LET S == CHOOSE T \in HighestHSets(db, n) : TRUE
    IN  {<<p, RAdd(db.rows[p].h_cash, db.h_inc)>> : p \in S}

GetHighestACash(db, n) ==
    LET S == CHOOSE T \in HighestASets(db, n) : TRUE
    IN  {<<p, RAdd(db.rows[p].a_cash, db.a_inc)>> : p \in S}

IncreaseAllCash(db, h_cash, a_cash) ==
    [db EXCEPT !.a_inc = RAdd(db.a_inc, a_cash),
               !.h_inc = RAdd(db.h_inc, h_cash)]

\* UPDATE ... SET h_cash=h_cash + c WHERE page_id IN (list)
IncreaseHCash(db, page_id_list, h_cash) ==
    [db EXCEPT !.rows =
        [p \in DOMAIN db.rows |->
            IF p \in page_id_list
            THEN [db.rows[p] EXCEPT !.h_cash = RAdd(@, h_cash)]
            ELSE db.rows[p]]]

IncreaseACash(db, page_id_list, a_cash) ==
    [db EXCEPT !.rows =
        [p \in DOMAIN db.rows |->
            IF p \in page_id_list
            THEN [db.rows[p] EXCEPT !.a_cash = RAdd(@, a_cash)]
            ELSE db.rows[p]]]

GetCount(db) == Cardinality(DOMAIN db.rows)

GetHTotal(db) == RSum([p \in DOMAIN db.rows |-> db.rows[p].h_history], DOMAIN db.rows)

GetATotal(db) == RSum([p \in DOMAIN db.rows |-> db.rows[p].a_history], DOMAIN db.rows)

\* a close that leaves table global_increase as created
SavedNothing(db) == [h_cash |-> Zero, a_cash |-> Zero]

\* close writes both deltas to table global_increase
SavedIncrease(db) == [h_cash |-> db.h_inc, a_cash |-> db.a_inc]

\* __init__ reads both deltas back from table global_increase
RestoredDb(r, saved) == Db(r, saved.h_cash, saved.a_cash)

(***************************************************************************)
(* Graph store and relevance store, as the engine reads them.              *)
(***************************************************************************)
Successors(page_id) == {v \in ids : <<page_id, v>> \in edges}

Predecessors(page_id) == {u \in ids : <<u, page_id>> \in edges}

\* relevance.get(page_id): the stored relevance, or None
RelevanceGet(page_id) == relevance[page_id]

(***************************************************************************)
(* opichits.OpicHits.  An engine value e is [db, n_pages, h_total,         *)
(* a_total, time, vp, drain]: the score store, the counters, the virtual   *)
(* clock, the virtual page, and (bookkeeping) the smallest amount a hub or *)
(* authority step has added to the clock, NoValue before the first step.   *)
(***************************************************************************)
Engine(db, n, ht, at, t, vp, dr) ==
    [db |-> db, n_pages |-> n, h_total |-> ht, a_total |-> at,
     time |-> t, vp |-> vp, drain |-> dr]

\* a new record that has history
NewScoreWithHistory(t) == HitsScore(One, One, t, One, One, t)

\* the record add_page inserts
NewScore(t) == HitsScore(Zero, One, t, Zero, One, t)

\* an add_page that does not look the page up first
EngineAddPageUnchecked(e, page_id) ==
    [e EXCEPT !.n_pages = e.n_pages + 1,
              !.db = DbAdd(e.db, page_id, HitsScore(Zero, One, e.time, Zero, One, e.time))]

\* add_page: the engine after the call
EngineAddPage(e, page_id) ==
    IF ~DbContains(e.db, page_id)
    THEN [e EXCEPT !.n_pages = e.n_pages + 1,
                   !.db = DbAdd(e.db, page_id, NewScore(e.time))]
    ELSE e

\* add_page: the value returned
AddPageResult(e, page_id) ==
    IF ~DbContains(e.db, page_id) THEN NewScore(e.time) ELSE None

\* _get_page_score: the score returned (the page is added first when unknown)
GetPageScore(e, page_id) ==
    IF AddPageResult(e, page_id) # None
    THEN AddPageResult(e, page_id)
    ELSE DbGet(e.db, page_id)

\* _history_interpolator without the branch that forgets the old history
HistoryInterpolatorDecayOnly(delta, history, cash) ==
    LET f == RDiv(delta, time_window)
    IN  RAdd(RMul(history, RSub(One, f)), cash)

HistoryInterpolator(delta, history, cash) ==
    LET f == RDiv(delta, time_window)
    IN  IF RLt(f, One)
        THEN RAdd(RMul(history, RSub(One, f)), cash)
        ELSE RDiv(cash, f)

UpdatedPageH(e, page_score) ==
    LET h_history_new ==
            IF time_window = Zero
            THEN RAdd(page_score.h_history, page_score.h_cash)
            ELSE HistoryInterpolator(RSub(e.time, page_score.h_last),
                                     page_score.h_history, page_score.h_cash)
    IN  HitsScore(h_history_new, Zero, e.time,
                  page_score.a_history, page_score.a_cash, page_score.a_last)

UpdatedPageA(e, page_score) ==
    LET a_history_new ==
            IF time_window = Zero
            THEN RAdd(page_score.a_history, page_score.a_cash)
            ELSE HistoryInterpolator(RSub(e.time, page_score.a_last),
                                     page_score.a_history, page_score.a_cash)
    IN  HitsScore(page_score.h_history, page_score.h_cash, page_score.h_last,
                  a_history_new, Zero, e.time)

\* _update_virtual_page with each cash of the virtual page given back on its
\* own side
UpdateVirtualPageSameSide(e) ==
    IF e.n_pages > 0
    THEN LET h_dist == RDiv(e.vp.h_cash, FromInt(e.n_pages))
             a_dist == RDiv(e.vp.a_cash, FromInt(e.n_pages))
         IN  [e EXCEPT !.db = IncreaseAllCash(e.db, h_dist, a_dist),
                       !.vp = UpdatedPageH(e, UpdatedPageA(e, e.vp))]
    ELSE e

UpdateVirtualPage(e) ==
    IF e.n_pages > 0
    THEN LET h_dist == RDiv(e.vp.a_cash, FromInt(e.n_pages))
             a_dist == RDiv(e.vp.h_cash, FromInt(e.n_pages))
         IN  [e EXCEPT !.db = IncreaseAllCash(e.db, h_dist, a_dist),
                       !.vp = UpdatedPageH(e, UpdatedPageA(e, e.vp))]
    ELSE e

\* the smaller of the recorded smallest clock advance and d
DrainMin(dr, d) == IF dr = NoValue \/ RLt(d, dr) THEN d ELSE dr

UpdatePageH(e, page_id) ==
    LET score == GetPageScore(e, page_id)
        e1 == EngineAddPage(e, page_id)
        succ == Successors(page_id)
        a_dist == RDiv(score.h_cash, FromInt(Cardinality(succ) + 1))
        db2 == IncreaseACash(e1.db, succ, a_dist)
        vp2 == [e1.vp EXCEPT !.a_cash = RAdd(@, a_dist)]
        new_score == UpdatedPageH(e1, score)
    IN  [e1 EXCEPT !.db = DbSet(db2, page_id, new_score),
                   !.vp = vp2,
                   !.h_total = RAdd(@, RSub(new_score.h_history, score.h_history)),
                   !.time = RAdd(@, score.h_cash),
                   !.drain = DrainMin(@, score.h_cash)]

\* z(r) of _update_page_a for N predecessors
ZShare(r, N) ==
    IF N > 0
    THEN RMul(RDiv(RMul(FromInt(2), r), FromInt(N)),
              RAdd(RMul(RDiv(FromInt(2 * N), FromInt(N + 1)), RSub(One, r)),
                   RSub(r, Half)))
    ELSE Zero

\* self._relevance.get(page_id) or 0.5
RelevanceOf(page_id) ==
    IF RelevanceGet(page_id) = NoValue \/ RelevanceGet(page_id) = Zero
    THEN Half
    ELSE RelevanceGet(page_id)

UpdatePageA(e, page_id) ==
    LET score == GetPageScore(e, page_id)
        e1 == EngineAddPage(e, page_id)
        pred == Predecessors(page_id)
        N == Cardinality(pred)
        r == RelevanceOf(page_id)
        z == ZShare(r, N)
        db2 == IncreaseHCash(e1.db, pred, RMul(score.a_cash, z))
        vp2 == [e1.vp EXCEPT !.h_cash =
                   RAdd(@, RMul(score.a_cash, RSub(One, RMul(z, FromInt(N)))))]
        new_score == UpdatedPageA(e1, score)
    IN  [e1 EXCEPT !.db = DbSet(db2, page_id, new_score),
                   !.vp = vp2,
                   !.a_total = RAdd(@, RSub(new_score.a_history, score.a_history)),
                   !.time = RAdd(@, score.a_cash),
                   !.drain = DrainMin(@, score.a_cash)]

\* an entry of the list mixed: (cash, page_id, is_hub)
Entry(c, p, h) == [cash |-> c, page |-> p, hub |-> h]

\* tuple order of (cash, page_id, is_hub)
EntryGt(x, y) ==
    \/ RGt(x.cash, y.cash)
    \/ /\ x.cash = y.cash
       /\ \/ x.page > y.page
          \/ x.page = y.page /\ x.hub /\ ~y.hub

\* sorted(..., reverse=True)
RECURSIVE SortedReverse(_)
SortedReverse(S) ==
    IF S = {} THEN <<>>
    ELSE LET m == CHOOSE x \in S : \A y \in S \ {x} : EntryGt(x, y)
         IN  <<m>> \o SortedReverse(S \ {m})

\* the batch factor of update
BatchFactor == 20

\* n_updates of update
NUpdates(marks) == BatchFactor * Max(1, Len(marks))

\* the list mixed of one iteration
Mixed(e, n_updates) ==
    LET highest_h == GetHighestHCash(e.db, n_updates)
        highest_a == GetHighestACash(e.db, n_updates)
        all == SortedReverse({Entry(x[2], x[1], TRUE) : x \in highest_h}
                             \cup {Entry(x[2], x[1], FALSE) : x \in highest_a})
    IN  SubSeq(all, 1, Min(n_updates, Len(all)))

\* the loop over mixed, from entry i on
RECURSIVE UpdateBatch(_, _, _)
UpdateBatch(e, entries, i) ==
    \* (reading e.n_pages has TLC evaluate the engine entry by entry)
    IF i > Len(entries) \/ e.n_pages < 0 THEN e
    ELSE UpdateBatch(IF entries[i].hub
                     THEN UpdatePageH(e, entries[i].page)
                     ELSE UpdatePageA(e, entries[i].page),
                     entries, i + 1)

\* one iteration of update
UpdateIteration(e, n_updates) ==
    UpdateVirtualPage(UpdateBatch(e, Mixed(e, n_updates), 1))

\* the engine after n_iter iterations
RECURSIVE UpdateLoop(_, _, _)
UpdateLoop(e, n_updates, n_iter) ==
    IF n_iter = 0 THEN e
    ELSE UpdateLoop(UpdateIteration(e, n_updates), n_updates, n_iter - 1)

\* the return statement reads the local mixed, which no iteration has bound
UnboundLocalError == [raised |-> "UnboundLocalError"]

\* the pair of lists the return statement builds from the list last bound to
\* mixed
ReturnPair(last_mixed) ==
    IF last_mixed = None THEN UnboundLocalError
    ELSE LET hubs == SelectSeq(last_mixed, LAMBDA x : x.hub)
             auths == SelectSeq(last_mixed, LAMBDA x : ~x.hub)
         IN  [h |-> [i \in 1..Len(hubs) |-> hubs[i].page],
              a |-> [i \in 1..Len(auths) |-> auths[i].page]]

\* what update returns: the hub and the authority entries of the last
\* iteration's mixed
UpdateResult(e, n_updates, n_iter) ==
    ReturnPair(IF n_iter = 0 THEN None
               ELSE Mixed(UpdateLoop(e, n_updates, n_iter - 1), n_updates))

\* a score that is not divided by the total
RelativeScoreUnscaled(e, score) ==
    [h_rel |-> score.h_history, a_rel |-> score.a_history]

\* _relative_score
RelativeScore(e, score) ==
    [h_rel |-> IF RGt(e.h_total, Zero) THEN RDiv(score.h_history, e.h_total) ELSE Zero,
     a_rel |-> IF RGt(e.a_total, Zero) THEN RDiv(score.a_history, e.a_total) ELSE Zero]

\* get_scores: the pair returned (the page is added first when unknown)
GetScoresResult(e, page_id) ==
    RelativeScore(EngineAddPage(e, page_id), GetPageScore(e, page_id))

(***************************************************************************)
(* The engine and its stores as state.                                     *)
(***************************************************************************)
CurDb == Db(rows, h_cash_increase, a_cash_increase)

CurEngine == Engine(CurDb, n_pages, h_total, a_total, time, virtual_page, NoValue)

\* the store part of the next state is db
SetDb(db) ==
    /\ rows' = db.rows
    /\ h_cash_increase' = db.h_inc
    /\ a_cash_increase' = db.a_inc

\* the engine part of the next state is e
SetEngine(e) ==
    /\ SetDb(e.db)
    /\ n_pages' = e.n_pages
    /\ h_total' = e.h_total
    /\ a_total' = e.a_total
    /\ time' = e.time
    /\ virtual_page' = e.vp

\* the virtual page of a new engine
InitialVirtualPage == HitsScore(Zero, One, Zero, Zero, One, Zero)

\* add_page for every page of a set (the loop over inodes of __init__)
RECURSIVE AddPages(_, _)
AddPages(e, S) ==
    IF S = {} THEN e
    ELSE LET p == CHOOSE q \in S : TRUE
         IN  AddPages(EngineAddPage(e, p), S \ {p})

\* OpicHits.__init__ over the score store db and the graph nodes
NewEngine(db, graph_nodes) ==
    AddPages(Engine(db, GetCount(db), GetHTotal(db), GetATotal(db),
                    Zero, InitialVirtualPage, NoValue),
             graph_nodes)

EmptyRows == [p \in {} |-> None]

NoIncrease == [h_cash |-> Zero, a_cash |-> Zero]

\* the parts of the state the engine world leaves alone
IdleStoreRef == ref = EmptyRows /\ snap = EmptyRows /\ n_ops = 0
IdleFreq ==
    page_frequency = EmptyRows /\ start_frequency = EmptyRows /\ selected = EmptyRows

\* no update call in progress, none made
IdleCall ==
    /\ pc = "idle"
    /\ rounds = 0
    /\ mixed = None
    /\ idx = 0
    /\ h_done = {}
    /\ a_done = {}
    /\ v_done = 0
    /\ ret = None
    /\ entered = None

\* a new engine over a new score store and the graph store g_nodes, g_edges
InitEngine(g_nodes, g_edges) ==
    /\ nodes = g_nodes
    /\ edges = g_edges
    /\ global_increase = NoIncrease
    /\ connected = TRUE
    /\ LET e == NewEngine(Db(EmptyRows, Zero, Zero), g_nodes)
       IN  /\ rows = e.db.rows
           /\ h_cash_increase = e.db.h_inc
           /\ a_cash_increase = e.db.a_inc
           /\ n_pages = e.n_pages
           /\ h_total = e.h_total
           /\ a_total = e.a_total
           /\ time = e.time
           /\ virtual_page = e.vp
    /\ to_update = <<>>
    /\ closed = FALSE
    /\ n_upd = 0
    /\ n_restart = 0
    /\ min_drain = NoValue
    /\ IdleStoreRef
    /\ IdleFreq
    /\ IdleCall
    /\ twin = None

\* the time windows tried: none, and a window of two units
TimeWindows == {Zero, FromInt(2)}

\* the relevance stores tried: empty, every page irrelevant, every page relevant
RelevanceStores(S) == {[p \in S |-> r] : r \in {NoValue, Zero, One}}

\* the webs crawled: no link, one link, a cycle of two pages, and a page that
\* links to itself and to another page
Webs ==
    { {}, {<<1, 2>>}, {<<1, 2>>, <<2, 1>>}, {<<1, 1>>, <<1, 2>>} }

Init ==
    /\ ids = 1..MaxPages
    /\ web \in Webs
    /\ relevance \in RelevanceStores(ids)
    /\ time_window \in TimeWindows
    /\ InitEngine({}, {})

(***************************************************************************)
(* Graph store calls.                                                      *)
(***************************************************************************)
\* add_edge(u, v) for every link v of the crawled page u
AddOutlinks(u) ==
    /\ \E v \in ids : <<u, v>> \in web /\ <<u, v>> \notin edges
    /\ edges' = edges \cup {l \in web : l[1] = u}
    /\ nodes' = nodes \cup {u} \cup {l[2] : l \in {m \in web : m[1] = u}}
    /\ UNCHANGED <<worldVars, twin, callVars, relevance, storeVars, engineVars, countVars,
                   refVars, freqVars>>

\* add_edge(u, v) for every link of the web
Crawl ==
    /\ edges # web
    /\ edges' = edges \cup web
    /\ nodes' = nodes \cup {l[1] : l \in web} \cup {l[2] : l \in web}
    /\ UNCHANGED <<worldVars, twin, callVars, relevance, storeVars, engineVars, countVars,
                   refVars, freqVars>>

\* delete_node(p)
DeleteNode(p) ==
    /\ p \in nodes
    /\ nodes' = nodes \ {p}
    /\ edges' = {l \in edges : l[1] # p /\ l[2] # p}
    /\ UNCHANGED <<worldVars, twin, callVars, relevance, storeVars, engineVars, countVars,
                   refVars, freqVars>>

(***************************************************************************)
(* Engine calls.                                                           *)
(***************************************************************************)
AddPage(page_id) ==
    /\ ~closed
    /\ SetEngine(EngineAddPage(CurEngine, page_id))
    /\ UNCHANGED <<worldVars, twin, callVars, graphVars, global_increase, connected, to_update,
                   time_window, closed, countVars, refVars, freqVars>>

MarkUpdate(page_id) ==
    /\ ~closed
    /\ to_update' = Append(to_update, page_id)
    /\ UNCHANGED <<worldVars, twin, callVars, graphVars, storeVars, n_pages, h_total, a_total,
                   time_window, time, virtual_page, closed, countVars, refVars,
                   freqVars>>

Update(n_iter) ==
    /\ ~closed
    /\ LET e == UpdateLoop(CurEngine, NUpdates(to_update), n_iter)
       IN  /\ SetEngine(e)
           /\ min_drain' = e.drain
    /\ to_update' = <<>>
    /\ n_upd' = n_upd + n_iter
    /\ UNCHANGED <<worldVars, twin, callVars, graphVars, global_increase, connected, time_window,
                   closed, n_restart, refVars, freqVars>>

GetScores(page_id) ==
    /\ ~closed
    /\ SetEngine(EngineAddPage(CurEngine, page_id))
    /\ UNCHANGED <<worldVars, twin, callVars, graphVars, global_increase, connected, to_update,
                   time_window, closed, countVars, refVars, freqVars>>

\* close: the score store saves its deltas and closes
Close ==
    /\ ~closed
    /\ global_increase' = SavedIncrease(CurDb)
    /\ connected' = FALSE
    /\ closed' = TRUE
    /\ UNCHANGED <<worldVars, twin, callVars, graphVars, rows, h_cash_increase, a_cash_increase,
                   n_pages, h_total, a_total, to_update, time_window, time,
                   virtual_page, countVars, refVars, freqVars>>

\* a new engine over the score store and the graph store the closed one left
Restart ==
    /\ closed
    /\ n_restart < MaxRestarts
    /\ SetEngine(NewEngine(RestoredDb(rows, global_increase), nodes))
    /\ connected' = TRUE
    /\ to_update' = <<>>
    /\ closed' = FALSE
    /\ n_restart' = n_restart + 1
    /\ UNCHANGED <<worldVars, twin, callVars, graphVars, global_increase, time_window, n_upd,
                   min_drain, refVars, freqVars>>

Next ==
    \/ \E u \in ids : AddOutlinks(u)
    \/ \E p \in ids : DeleteNode(p)
    \/ \E p \in ids : AddPage(p)
    \/ \E p \in ids : Len(to_update) < MaxMarks /\ MarkUpdate(p)
    \/ \E n \in 1..MaxIter : n_upd + n <= MaxUpdates /\ Update(n)
    \/ \E p \in ids : GetScores(p)
    \/ Close
    \/ Restart

Spec == Init /\ [][Next]_vars

(***************************************************************************)
(* The hub world: HubPages known pages, page 1 linked to and from every     *)
(* other page, no time window.                                             *)
(***************************************************************************)
HubWeb ==
    {<<1, p>> : p \in 2..HubPages} \cup {<<p, 1>> : p \in 2..HubPages}

\* every page relevant, but the hub: unknown, half relevant, relevant, or
\* nearly relevant
HubRelevances ==
    {[p \in 1..HubPages |-> IF p = 1 THEN r ELSE One] :
        r \in {NoValue, Half, One, <<11, 12>>}}

InitHub ==
    /\ ids = 1..HubPages
    /\ web = HubWeb
    /\ relevance \in HubRelevances
    /\ time_window = Zero
    /\ InitEngine(ids, {})

NextHub ==
    \/ Crawl
    \/ DeleteNode(1)
    \/ \E p \in ids : AddPage(p)
    \/ \E p \in ids : Len(to_update) < MaxMarks /\ MarkUpdate(p)
    \/ n_upd < HubUpdates /\ Update(1)
    \/ \E p \in ids : GetScores(p)

SpecHub == InitHub /\ [][NextHub]_vars

(***************************************************************************)
(* The window world: the hub world under a time window, the pages scored   *)
(* once before their links are crawled.                                    *)
(***************************************************************************)
HubWindows == {FromInt(12), FromInt(20)}

InitWindow ==
    /\ ids = 1..HubPages
    /\ web = HubWeb
    /\ relevance \in HubRelevances
    /\ time_window \in HubWindows
    /\ InitEngine(ids, {})

NextWindow ==
    \/ n_upd >= 1 /\ Crawl
    \/ DeleteNode(1)
    \/ \E p \in ids : AddPage(p)
    \/ \E p \in ids : Len(to_update) < MaxMarks /\ MarkUpdate(p)
    \/ n_upd < WindowUpdates /\ Update(1)
    \/ \E p \in ids : GetScores(p)

SpecWindow == InitWindow /\ [][NextWindow]_vars

(***************************************************************************)
(* The must-update world: MarkPages known pages without links, more        *)
(* (page, kind) entries than one batch of update takes.                    *)
(***************************************************************************)
InitMark ==
    /\ ids = 1..MarkPages
    /\ web = {}
    /\ relevance \in RelevanceStores(ids)
    /\ time_window = Zero
    /\ InitEngine(ids, {})

NextMark ==
    \/ \E p \in ids : Len(to_update) < MaxMarks /\ MarkUpdate(p)
    \/ n_upd < MarkUpdates /\ Update(1)

SpecMark == InitMark /\ [][NextMark]_vars

(***************************************************************************)
(* update, statement by statement.  While a call is in progress no other   *)
(* call of the engine or of the graph store is made.                       *)
(***************************************************************************)
\* the call is made: n_updates is computed from the must-update list, which
\* does not change before the call ends
UpdateBegin(n_iter) ==
    /\ ~closed
    /\ pc = "idle"
    /\ pc' = "loop"
    /\ rounds' = n_iter
    /\ mixed' = None
    /\ idx' = 0
    /\ h_done' = {}
    /\ a_done' = {}
    /\ v_done' = 0
    /\ ret' = None
    /\ entered' = [e |-> CurEngine, n_iter |-> n_iter]
    /\ min_drain' = NoValue
    /\ UNCHANGED <<worldVars, twin, graphVars, storeVars, engineVars, n_upd, n_restart,
                   refVars, freqVars>>

\* an iteration starts: the list mixed is built
UpdateSelect ==
    /\ pc = "loop"
    /\ rounds > 0
    /\ rounds' = rounds - 1
    /\ mixed' = Mixed(CurEngine, NUpdates(to_update))
    /\ idx' = 1
    /\ v_done' = 0
    /\ pc' = "batch"
    /\ UNCHANGED <<worldVars, twin, graphVars, storeVars, engineVars, countVars,
                   refVars, freqVars, h_done, a_done, ret, entered>>

\* the body of the loop over mixed, for the entry at idx
UpdateEntry ==
    /\ pc = "batch"
    /\ idx <= Len(mixed)
    /\ LET e == IF mixed[idx].hub
                THEN UpdatePageH(CurEngine, mixed[idx].page)
                ELSE UpdatePageA(CurEngine, mixed[idx].page)
       IN  /\ SetEngine(e)
           /\ min_drain' = DrainMin(min_drain, e.drain)
    /\ h_done' = IF mixed[idx].hub THEN h_done \cup {mixed[idx].page} ELSE h_done
    /\ a_done' = IF mixed[idx].hub THEN a_done ELSE a_done \cup {mixed[idx].page}
    /\ idx' = idx + 1
    /\ UNCHANGED <<worldVars, twin, graphVars, global_increase, connected, to_update,
                   time_window, closed, n_upd, n_restart, refVars, freqVars,
                   pc, rounds, mixed, v_done, ret, entered>>

\* a virtual-page step at any point of the loop over mixed
UpdateVirtualAnyTime ==
    /\ pc = "batch"
    /\ SetEngine(UpdateVirtualPage(CurEngine))
    /\ v_done' = v_done + 1
    /\ pc' = IF idx > Len(mixed) THEN "loop" ELSE "batch"
    /\ UNCHANGED <<worldVars, twin, graphVars, global_increase, connected, to_update,
                   time_window, closed, countVars, refVars, freqVars,
                   rounds, mixed, idx, h_done, a_done, ret, entered>>

\* the loop over mixed is over: _update_virtual_page is called
UpdateVirtual ==
    /\ pc = "batch"
    /\ idx > Len(mixed)
    /\ SetEngine(UpdateVirtualPage(CurEngine))
    /\ v_done' = v_done + 1
    /\ pc' = "loop"
    /\ UNCHANGED <<worldVars, twin, graphVars, global_increase, connected, to_update,
                   time_window, closed, countVars, refVars, freqVars,
                   rounds, mixed, idx, h_done, a_done, ret, entered>>

\* the loop over iterations is over: the must-update list is emptied and the
\* return statement is executed
UpdateEnd ==
    /\ pc = "loop"
    /\ rounds = 0
    /\ to_update' = <<>>
    /\ ret' = ReturnPair(mixed)
    /\ n_upd' = n_upd + entered.n_iter
    /\ pc' = "idle"
    /\ UNCHANGED <<worldVars, twin, graphVars, storeVars, n_pages, h_total, a_total,
                   time_window, time, virtual_page, closed, n_restart, min_drain,
                   refVars, freqVars, rounds, mixed, idx, h_done, a_done, v_done,
                   entered>>

\* the small world of Init, update made statement by statement
NextSteps ==
    \/ pc = "idle" /\ Crawl
    \/ \E p \in ids : pc = "idle" /\ DeleteNode(p)
    \/ \E p \in ids : pc = "idle" /\ AddPage(p)
    \/ \E p \in ids : pc = "idle" /\ Len(to_update) < MaxMarks /\ MarkUpdate(p)
    \/ \E n \in 0..MaxIter : n_upd + n <= MaxUpdates /\ UpdateBegin(n)
    \/ UpdateSelect
    \/ UpdateEntry
    \/ UpdateVirtual
    \/ UpdateEnd

SpecSteps == Init /\ [][NextSteps]_vars

\* the must-update world, update made statement by statement
NextMarkSteps ==
    \/ pc = "idle" /\ Len(to_update) < MarkMarks /\ MarkUpdate(1)
    \/ \E n \in 1..MaxIter : n_upd + n <= MaxUpdates /\ UpdateBegin(n)
    \/ UpdateSelect
    \/ UpdateEntry
    \/ UpdateVirtual
    \/ UpdateEnd

SpecMarkSteps == InitMark /\ [][NextMarkSteps]_vars

(***************************************************************************)
(* The self-loop world: before an update call, the engine the call would   *)
(* leave is computed; then self-loops are added to the graph store and the *)
(* call is made.                                                           *)
(***************************************************************************)
\* an update call was computed and not yet made
Pending == twin # None /\ twin.at = n_upd

\* update(n_iter) computed on the graph store as it is, without a self-loop
Foresee(n_iter) ==
    /\ ~closed
    /\ \A p \in ids : <<p, p>> \notin edges
    /\ twin' = [e |-> UpdateLoop(CurEngine, NUpdates(to_update), n_iter),
                n_iter |-> n_iter, at |-> n_upd]
    /\ UNCHANGED <<worldVars, graphVars, storeVars, engineVars, countVars,
                   refVars, freqVars, callVars>>

\* add_edge(p, p)
AddSelfLoop(p) ==
    /\ <<p, p>> \notin edges
    /\ edges' = edges \cup {<<p, p>>}
    /\ nodes' = nodes \cup {p}
    /\ UNCHANGED <<worldVars, twin, callVars, relevance, storeVars, engineVars,
                   countVars, refVars, freqVars>>

NextLoop ==
    \/ ~Pending /\ Crawl
    \/ \E p \in ids : ~Pending /\ DeleteNode(p)
    \/ \E p \in ids : ~Pending /\ AddPage(p)
    \/ \E n \in 1..MaxIter : ~Pending /\ n_upd + n <= MaxUpdates /\ Foresee(n)
    \/ \E p \in ids : Pending /\ AddSelfLoop(p)
    \/ \E n \in 1..MaxIter :
           /\ n_upd + n <= MaxUpdates
           /\ Pending => n = twin.n_iter
           /\ Update(n)

SpecLoop == Init /\ [][NextLoop]_vars

(***************************************************************************)
(* The store world: hitsdb.SQLite alone, beside a naive store ref in which *)
(* increase_all_cash adds to every row present.                            *)
(***************************************************************************)
\* the records written (the first two of _test_hits_db)
StoreScores ==
    { HitsScore(FromInt(1), FromInt(2), Zero, FromInt(3), FromInt(4), Zero),
      HitsScore(FromInt(5), FromInt(5), Zero, FromInt(5), FromInt(5), Zero) }

\* the amounts of cash added
StoreAmounts == {Half, FromInt(2)}

InitStore ==
    /\ ids = 1..MaxPages
    /\ web = {}
    /\ relevance \in {[p \in ids |-> NoValue]}
    /\ time_window = Zero
    /\ InitEngine({}, {})

\* the naive store after adding h_cash and a_cash to the rows of S
RefIncrease(S, h_cash, a_cash) ==
    [p \in DOMAIN ref |->
        IF p \in S
        THEN [ref[p] EXCEPT !.h_cash = RAdd(@, h_cash), !.a_cash = RAdd(@, a_cash)]
        ELSE ref[p]]

StoreCall ==
    /\ connected
    /\ n_ops < MaxStoreOps
    /\ n_ops' = n_ops + 1
    /\ UNCHANGED <<worldVars, twin, callVars, graphVars, global_increase, connected, engineVars,
                   countVars, snap, freqVars>>

StoreAdd(page_id, page_score) ==
    /\ StoreCall
    /\ SetDb(DbAdd(CurDb, page_id, page_score))
    /\ ref' = IF page_id \in DOMAIN ref THEN ref
              ELSE (page_id :> page_score) @@ ref

StoreSet(page_id, page_score) ==
    /\ StoreCall
    /\ SetDb(DbSet(CurDb, page_id, page_score))
    /\ ref' = IF page_id \in DOMAIN ref
              THEN [ref EXCEPT ![page_id] = page_score]
              ELSE ref

StoreDelete(page_id) ==
    /\ StoreCall
    /\ SetDb(DbDelete(CurDb, page_id))
    /\ ref' = [p \in DOMAIN ref \ {page_id} |-> ref[p]]

StoreIncreaseHCash(page_id_list, h_cash) ==
    /\ StoreCall
    /\ SetDb(IncreaseHCash(CurDb, page_id_list, h_cash))
    /\ ref' = RefIncrease(page_id_list, h_cash, Zero)

StoreIncreaseACash(page_id_list, a_cash) ==
    /\ StoreCall
    /\ SetDb(IncreaseACash(CurDb, page_id_list, a_cash))
    /\ ref' = RefIncrease(page_id_list, Zero, a_cash)

StoreIncreaseAllCash(h_cash, a_cash) ==
    /\ StoreCall
    /\ SetDb(IncreaseAllCash(CurDb, h_cash, a_cash))
    /\ ref' = RefIncrease(DOMAIN ref, h_cash, a_cash)

\* close, after reading every record
StoreClose ==
    /\ connected
    /\ snap' = [p \in DOMAIN rows |-> DbGet(CurDb, p)]
    /\ global_increase' = SavedIncrease(CurDb)
    /\ connected' = FALSE
    /\ UNCHANGED <<worldVars, twin, callVars, graphVars, rows, h_cash_increase, a_cash_increase,
                   engineVars, countVars, ref, n_ops, freqVars>>

\* SQLite.__init__ on the database the closed connection left
StoreOpen ==
    /\ ~connected
    /\ n_restart < MaxRestarts
    /\ SetDb(RestoredDb(rows, global_increase))
    /\ connected' = TRUE
    /\ n_restart' = n_restart + 1
    /\ UNCHANGED <<worldVars, twin, callVars, graphVars, global_increase, engineVars, n_upd,
                   min_drain, refVars, freqVars>>

NextStore ==
    \/ \E p \in ids, sc \in StoreScores : StoreAdd(p, sc)
    \/ \E p \in ids, sc \in StoreScores : StoreSet(p, sc)
    \/ \E p \in ids : StoreDelete(p)
    \/ \E l \in SUBSET ids, c \in StoreAmounts : StoreIncreaseHCash(l, c)
    \/ \E l \in SUBSET ids, c \in StoreAmounts : StoreIncreaseACash(l, c)
    \/ \E h, a \in StoreAmounts : StoreIncreaseAllCash(h, a)
    \/ StoreClose
    \/ StoreOpen

SpecStore == InitStore /\ [][NextStore]_vars

(***************************************************************************)
(* freqdb.SQLite.  A table value pf maps a page id to its frequency and    *)
(* score.                                                                  *)
(***************************************************************************)
FreqRow(f, s) == [frequency |-> f, score |-> s]

\* _get_min_score
GetMinScore(pf) ==
    IF DOMAIN pf = {} THEN Zero
    ELSE LET p == CHOOSE q \in DOMAIN pf :
                      \A r \in DOMAIN pf : RLe(pf[q].score, pf[r].score)
         IN  pf[p].score

FreqDbContains(pf, page_id) == page_id \in DOMAIN pf

\* an add with a score of its own choosing
FreqDbAddAtZero(pf, page_id, frequency, fresh) ==
    IF RGt(frequency, Zero) /\ page_id \notin DOMAIN pf
    THEN (page_id :> FreqRow(frequency, Zero)) @@ pf
    ELSE pf

\* an add that takes every frequency
FreqDbAddAny(pf, page_id, frequency, fresh) ==
    LET score == IF fresh /\ frequency # Zero
                 THEN RAdd(GetMinScore(pf), RDiv(One, frequency))
                 ELSE GetMinScore(pf)
    IN  IF page_id \in DOMAIN pf THEN pf
        ELSE (page_id :> FreqRow(frequency, score)) @@ pf

\* an add that puts a fresh page two periods behind the lowest score
FreqDbAddLate(pf, page_id, frequency, fresh) ==
    IF RGt(frequency, Zero)
    THEN LET score == IF fresh
                      THEN RAdd(GetMinScore(pf),
                                RDiv(FromInt(2), frequency))
                      ELSE GetMinScore(pf)
         IN  IF page_id \in DOMAIN pf THEN pf
             ELSE (page_id :> FreqRow(frequency, score)) @@ pf
    ELSE pf

\* an add that replaces the row of a page already in the table
FreqDbAddReplace(pf, page_id, frequency, fresh) ==
    IF RGt(frequency, Zero)
    THEN LET score == IF fresh
                      THEN RAdd(GetMinScore(pf), RDiv(One, frequency))
                      ELSE GetMinScore(pf)
         IN  (page_id :> FreqRow(frequency, score)) @@ pf
    ELSE pf

FreqDbAdd(pf, page_id, frequency, fresh) ==
    IF RGt(frequency, Zero)
    THEN LET score == IF fresh
                      THEN RAdd(GetMinScore(pf), RDiv(One, frequency))
                      ELSE GetMinScore(pf)
         IN  IF page_id \in DOMAIN pf THEN pf
             ELSE (page_id :> FreqRow(frequency, score)) @@ pf
    ELSE pf

\* a delete that leaves the row
FreqDbDeleteNothing(pf, page_id) == pf

FreqDbDelete(pf, page_id) == [p \in DOMAIN pf \ {page_id} |-> pf[p]]

\* a set that keeps the score of the row
FreqDbSetFrequencyOnly(pf, page_id, frequency) ==
    IF frequency = Zero THEN FreqDbDelete(pf, page_id)
    ELSE IF FreqDbContains(pf, page_id)
         THEN [pf EXCEPT ![page_id].frequency = frequency]
         ELSE FreqDbAdd(pf, page_id, frequency, TRUE)

\* a set that admits the page anew, one period behind the lowest score
FreqDbSetFromMin(pf, page_id, frequency) ==
    IF frequency = Zero THEN FreqDbDelete(pf, page_id)
    ELSE IF FreqDbContains(pf, page_id)
         THEN [pf EXCEPT ![page_id] =
                  FreqRow(frequency,
                          RAdd(GetMinScore(pf), RDiv(One, frequency)))]
         ELSE FreqDbAdd(pf, page_id, frequency, TRUE)

FreqDbSet(pf, page_id, frequency) ==
    IF frequency = Zero THEN FreqDbDelete(pf, page_id)
    ELSE IF FreqDbContains(pf, page_id)
         THEN [pf EXCEPT ![page_id] =
                  FreqRow(frequency,
                          RAdd(RSub(@.score, RDiv(One, @.frequency)),
                               RDiv(One, frequency)))]
         ELSE FreqDbAdd(pf, page_id, frequency, TRUE)

\* a query that returns rows of any score
AnyPageSets(pf, n) ==
    {S \in SUBSET DOMAIN pf : Cardinality(S) = Min(n, Cardinality(DOMAIN pf))}

\* SELECT page_id ... ORDER BY score ASC LIMIT n: the sets of pages the query
\* may return (rows of equal score come in any order)
NextPageSets(pf, n) ==
    {S \in SUBSET DOMAIN pf :
        /\ Cardinality(S) = Min(n, Cardinality(DOMAIN pf))
        /\ \A p \in S, q \in DOMAIN pf \ S : RLe(pf[p].score, pf[q].score)}

\* a schedule that leaves the score of the drawn page where it is
ScheduledNowhere(row) == row

\* a schedule that moves every drawn page by one unit
ScheduledByOne(row) == [row EXCEPT !.score = RAdd(@, One)]

\* SET score=score + 1.0/frequency
Scheduled(row) == [row EXCEPT !.score = RAdd(@, RDiv(One, row.frequency))]

\* the table after get_next_pages returned the pages of S
FreqDbNext(pf, S) ==
    [p \in DOMAIN pf |-> IF p \in S THEN Scheduled(pf[p]) ELSE pf[p]]

(***************************************************************************)
(* The schedule world: freqdb.SQLite alone; rows are added, set and        *)
(* deleted, then pages are drawn.                                          *)
(***************************************************************************)
Frequencies == {FromInt(1), FromInt(4)}

InitFreq ==
    /\ ids = 1..MaxFreqPages
    /\ web = {}
    /\ relevance \in {[p \in ids |-> NoValue]}
    /\ time_window = Zero
    /\ InitEngine({}, {})

\* pages drawn since the rows last changed
RECURSIVE Sum(_, _)
Sum(f, S) ==
    IF S = {} THEN 0
    ELSE LET p == CHOOSE q \in S : TRUE
         IN  f[p] + Sum(f, S \ {p})

Draws == Sum(selected, DOMAIN selected)

\* the rows change to pf, before any page is drawn
FreqChange(pf) ==
    /\ Draws = 0
    /\ n_ops < MaxFreqOps
    /\ n_ops' = n_ops + 1
    /\ page_frequency' = pf
    /\ start_frequency' = pf
    /\ selected' = [p \in DOMAIN pf |-> 0]
    /\ UNCHANGED <<worldVars, twin, callVars, graphVars, storeVars, engineVars, countVars,
                   ref, snap>>

FreqAdd(page_id, frequency, fresh) ==
    FreqChange(FreqDbAdd(page_frequency, page_id, frequency, fresh))

FreqSet(page_id, frequency) ==
    FreqChange(FreqDbSet(page_frequency, page_id, frequency))

FreqDelete(page_id) ==
    FreqChange(FreqDbDelete(page_frequency, page_id))

GetNextPages(n) ==
    /\ Draws < MaxDraws
    /\ \E S \in NextPageSets(page_frequency, n) :
           /\ page_frequency' = FreqDbNext(page_frequency, S)
           /\ selected' = [p \in DOMAIN selected |->
                              IF p \in S THEN selected[p] + 1 ELSE selected[p]]
    /\ UNCHANGED <<worldVars, twin, callVars, graphVars, storeVars, engineVars, countVars,
                   refVars, start_frequency>>

NextFreq ==
    \/ \E p \in ids, f \in Frequencies \cup {Zero}, fresh \in BOOLEAN :
           FreqAdd(p, f, fresh)
    \/ \E p \in ids, f \in Frequencies \cup {Zero} : FreqSet(p, f)
    \/ \E p \in ids : FreqDelete(p)
    \/ GetNextPages(1)

SpecFreq == InitFreq /\ [][NextFreq]_vars

\* the schedule world with a caller that keeps calling get_next_pages(1)
LiveFreq == SpecFreq /\ WF_vars(GetNextPages(1))

(***************************************************************************)
(* The call world: freqdb.SQLite alone; add, set, delete and               *)
(* get_next_pages(n) in any order.  selected counts, for every page a call *)
(* named, how often it was drawn.                                          *)
(***************************************************************************)
\* the frequencies passed to add: those of the rows, zero, and a negative one
AddFrequencies == Frequencies \cup {Zero, FromInt(-1)}

InitCalls ==
    /\ ids = 1..MaxFreqPages
    /\ web = {}
    /\ relevance \in {[p \in ids |-> NoValue]}
    /\ time_window = Zero
    /\ InitEngine({}, {})

\* a call about page_id leaves the table pf
FreqCall(pf, page_id) ==
    /\ n_ops < MaxCallOps
    /\ n_ops' = n_ops + 1
    /\ page_frequency' = pf
    /\ selected' = IF page_id \in DOMAIN selected THEN selected
                   ELSE (page_id :> 0) @@ selected
    /\ UNCHANGED <<worldVars, twin, callVars, graphVars, storeVars, engineVars, countVars,
                   ref, snap, start_frequency>>

Add(page_id, frequency, fresh) ==
    FreqCall(FreqDbAdd(page_frequency, page_id, frequency, fresh), page_id)

Set(page_id, frequency) ==
    FreqCall(FreqDbSet(page_frequency, page_id, frequency), page_id)

Delete(page_id) ==
    FreqCall(FreqDbDelete(page_frequency, page_id), page_id)

NextCalls ==
    \/ \E p \in ids, f \in AddFrequencies, fresh \in BOOLEAN : Add(p, f, fresh)
    \/ \E p \in ids, f \in Frequencies \cup {Zero} : Set(p, f)
    \/ \E p \in ids : Delete(p)
    \/ \E n \in 0..MaxBatch : Draws < MaxCallDraws /\ GetNextPages(n)

SpecCalls == InitCalls /\ [][NextCalls]_vars

(***************************************************************************)
(* The admission world: freqdb.SQLite alone, from the empty table; add,    *)
(* delete and get_next_pages(1) in any order, never set.                   *)
(***************************************************************************)
NextLag ==
    \/ \E p \in ids, f \in AddFrequencies, fresh \in BOOLEAN : Add(p, f, fresh)
    \/ \E p \in ids : Delete(p)
    \/ Draws < MaxCallDraws /\ GetNextPages(1)

SpecLag == InitCalls /\ [][NextLag]_vars

(***************************************************************************)
(* Cash.                                                                   *)
(***************************************************************************)
\* h_cash + a_cash over all real pages of the store db, plus the virtual page's
TotalCash(db, vp) ==
    RAdd(RSum([p \in DOMAIN db.rows |->
                  RAdd(DbGet(db, p).h_cash, DbGet(db, p).a_cash)],
              DOMAIN db.rows),
         RAdd(vp.h_cash, vp.a_cash))

\* the score store after the step
NextDb == Db(rows', h_cash_increase', a_cash_increase')

\* a step of update
UpdateStep == n_upd' > n_upd

\* C1: with no time window, every update call leaves the total cash (h_cash +
\* a_cash over all real pages plus the virtual page's) unchanged, for every
\* graph over the known pages, self-loops included, when every graph node
\* has a score record
C1_CashConserved ==
    [][(time_window = Zero /\ UpdateStep /\ nodes \subseteq DOMAIN rows)
          => TotalCash(NextDb, virtual_page') = TotalCash(CurDb, virtual_page)]_vars

(***************************************************************************)
(* Histories.                                                              *)
(***************************************************************************)
\* C5: with no time window, for every page and every operation of the engine
\* (add_page, mark_update, update, get_scores) h_history and a_history after
\* the operation are greater than or equal to their values before it
C5_HistoryMonotone ==
    [][time_window = Zero =>
          \A p \in DOMAIN rows \cap DOMAIN rows' :
              /\ RLe(rows[p].h_history, rows'[p].h_history)
              /\ RLe(rows[p].a_history, rows'[p].a_history)]_vars

\* C6: in every reachable state, with or without a time window, every page
\* and the virtual page has h_history >= 0 and a_history >= 0
C6_HistoryNonNegative ==
    /\ \A p \in DOMAIN rows :
           RGe(rows[p].h_history, Zero) /\ RGe(rows[p].a_history, Zero)
    /\ RGe(virtual_page.h_history, Zero)
    /\ RGe(virtual_page.a_history, Zero)

(***************************************************************************)
(* The must-update list.                                                   *)
(***************************************************************************)
\* C4: after mark_update(p) the next update call performs both a hub and an
\* authority update on p, draining its h_cash and a_cash (positive here) into
\* its history, however p's cash ranks among the other pages
C4_MarkedPageUpdated ==
    [][UpdateStep =>
          \A i \in 1..Len(to_update) :
              /\ RLt(rows[to_update[i]].h_history, rows'[to_update[i]].h_history)
              /\ RLt(rows[to_update[i]].a_history, rows'[to_update[i]].a_history)]_vars

(***************************************************************************)
(* add_page.                                                               *)
(***************************************************************************)
\* C7: the first add_page(p) for an unknown p inserts a record that reads back
\* as (0, 1, now, 0, 1, now), whatever the deltas of the store, and increments
\* the page count by one; every later add_page(p) changes no record, no
\* counter and no total
C7_AddPageIdempotent ==
    [][\A p \in ids : AddPage(p) =>
          IF p \notin DOMAIN rows
          THEN /\ DbGet(NextDb, p) = HitsScore(Zero, One, time, Zero, One, time)
               /\ n_pages' = n_pages + 1
               /\ \A q \in DOMAIN rows : DbGet(NextDb, q) = DbGet(CurDb, q)
               /\ DOMAIN rows' = DOMAIN rows \cup {p}
               /\ UNCHANGED <<h_total, a_total, time, virtual_page>>
          ELSE UNCHANGED <<rows, h_cash_increase, a_cash_increase, n_pages,
                           h_total, a_total, time, virtual_page>>]_vars

\* a page added after the clock and the deltas of the store moved
C7_Witness ==
    \E p \in DOMAIN rows :
        /\ h_cash_increase # Zero
        /\ a_cash_increase # Zero
        /\ time # Zero
        /\ DbGet(CurDb, p) = HitsScore(Zero, One, time, Zero, One, time)

(***************************************************************************)
(* The virtual clock.                                                      *)
(***************************************************************************)
\* a new engine is constructed over what the closed one left
RestartStep == closed /\ ~closed'

\* C9: a new engine constructed over the score store of a closed one starts
\* with the clock the closed one had, so that last <= virtual_time holds for
\* every stored page
C9_ClockPersists ==
    [][RestartStep =>
          /\ time' = time
          /\ \A p \in DOMAIN rows' :
                 /\ RLe(rows'[p].h_last, time')
                 /\ RLe(rows'[p].a_last, time')]_vars

\* C10: the clock never decreases, neither from call to call nor at a hub or
\* authority step inside an update call
C10_ClockMonotone ==
    [][/\ RLe(time, time')
       /\ UpdateStep => RGe(min_drain', Zero)]_vars

(***************************************************************************)
(* The score store.                                                        *)
(***************************************************************************)
\* C3: under any interleaving of add, set, delete, increase_h_cash,
\* increase_a_cash and increase_all_cash, get(p) returns for every page the
\* record of the naive store, in which increase_all_cash adds to every row
\* present at the time of the call
C3_CashDeltaEquivalence ==
    connected =>
        \A p \in ids :
            DbGet(CurDb, p) = IF p \in DOMAIN ref THEN ref[p] ELSE None

\* a record written after an increase_all_cash and read back as written,
\* beside a record the increase reached
C3_Witness ==
    /\ connected
    /\ h_cash_increase # Zero
    /\ a_cash_increase # Zero
    /\ \E p, q \in DOMAIN rows :
           /\ DbGet(CurDb, p) \in StoreScores
           /\ rows[p].h_cash # DbGet(CurDb, p).h_cash
           /\ DbGet(CurDb, q) \notin StoreScores
           /\ ref[q] = DbGet(CurDb, q)

\* the store is opened again
OpenStep == ~connected /\ connected'

\* C8: after any sequence of add, set, increase_h_cash, increase_a_cash and
\* increase_all_cash followed by close, opening the store again restores the
\* two deltas, and get(p) returns for every page the record it returned just
\* before close
C8_StoreRoundTrip ==
    [][OpenStep =>
          /\ h_cash_increase' = h_cash_increase
          /\ a_cash_increase' = a_cash_increase
          /\ \A p \in ids :
                 DbGet(NextDb, p) = IF p \in DOMAIN snap THEN snap[p] ELSE None]_vars

\* the store opened again with rows and both deltas other than zero
C8_Witness ==
    /\ connected
    /\ n_restart = 1
    /\ h_cash_increase # Zero
    /\ a_cash_increase # Zero
    /\ DOMAIN rows = ids
    /\ snap = [p \in DOMAIN rows |-> DbGet(CurDb, p)]

(***************************************************************************)
(* The schedule.                                                           *)
(***************************************************************************)
RAbs(x) == <<Abs(x[1]), x[2]>>

\* the sum of the frequencies of the rows
FreqTotal == RSum([p \in DOMAIN page_frequency |-> page_frequency[p].frequency],
                  DOMAIN page_frequency)

\* how far above (lowest score + 1/frequency) a score lay when the draws
\* started: zero for rows that were only added, more after a set
StartSlack ==
    LET over == [p \in DOMAIN start_frequency |->
                    RSub(start_frequency[p].score,
                         RAdd(GetMinScore(start_frequency),
                              RDiv(One, start_frequency[p].frequency)))]
        top == CHOOSE q \in DOMAIN over : \A r \in DOMAIN over : RLe(over[r], over[q])
    IN  IF DOMAIN over = {} \/ RLt(over[top], Zero) THEN Zero ELSE over[top]

\* C2: after N draws by get_next_pages(1) from rows of fixed frequencies
\* f_i > 0, each page's selection count c_i lies within eps of N*f_i/sum f_j,
\* where eps does not grow with N: eps = 1 + n*f_i/sum f_j + 2*f_i*slack for n
\* rows, slack being zero unless a set changed a frequency before the draws
C2_ProportionalSelection ==
    \A p \in DOMAIN page_frequency :
        LET f == page_frequency[p].frequency
            share == RDiv(f, FreqTotal)
            n == FromInt(Cardinality(DOMAIN page_frequency))
            eps == RAdd(RAdd(One, RMul(n, share)),
                        RMul(FromInt(2), RMul(f, StartSlack)))
        IN  RLe(RAbs(RSub(FromInt(selected[p]), RMul(FromInt(Draws), share))), eps)

\* all draws done, from rows of different frequencies one of which was set
C2_Witness ==
    /\ Draws = MaxDraws
    /\ StartSlack # Zero
    /\ \E p, q \in DOMAIN page_frequency :
           /\ page_frequency[p].frequency # page_frequency[q].frequency
           /\ selected[p] > selected[q]
           /\ selected[q] > 0

(***************************************************************************)
(* Relative scores.                                                        *)
(***************************************************************************)
\* C11: in every reachable state the totals the engine maintains are the sums
\* of h_history and of a_history over the rows of the score store, and for
\* every stored page get_scores returns its history over that sum, or 0 in a
\* channel whose sum is 0, so that the relative scores of all pages sum to 1
\* in each channel with a sum other than 0
C11_RelativeScores ==
    LET H == GetHTotal(CurDb)
        A == GetATotal(CurDb)
        res == [p \in DOMAIN rows |-> GetScoresResult(CurEngine, p)]
    IN  /\ h_total = H
        /\ a_total = A
        /\ \A p \in DOMAIN rows :
               /\ res[p].h_rel = IF H = Zero THEN Zero
                                 ELSE RDiv(DbGet(CurDb, p).h_history, H)
               /\ res[p].a_rel = IF A = Zero THEN Zero
                                 ELSE RDiv(DbGet(CurDb, p).a_history, A)
        /\ H # Zero => RSum([p \in DOMAIN rows |-> res[p].h_rel], DOMAIN rows) = One
        /\ A # Zero => RSum([p \in DOMAIN rows |-> res[p].a_rel], DOMAIN rows) = One

\* two pages of different relative scores, under a time window, in an engine
\* constructed over the score store of a closed one
C11_Witness ==
    /\ time_window # Zero
    /\ n_restart = 1
    /\ ~closed
    /\ \E p, q \in DOMAIN rows :
           /\ RLt(Zero, GetScoresResult(CurEngine, p).h_rel)
           /\ RLt(GetScoresResult(CurEngine, p).h_rel,
                  GetScoresResult(CurEngine, q).h_rel)
           /\ RLt(GetScoresResult(CurEngine, p).a_rel,
                  GetScoresResult(CurEngine, q).a_rel)

(***************************************************************************)
(* The calls of the frequency store.                                       *)
(***************************************************************************)
\* the pages the step drew
Returned == {p \in DOMAIN selected : selected'[p] > selected[p]}

\* every row but those of the pages of S is as it was
OtherRowsUnchanged(S) ==
    \A q \in ids \ S :
        /\ q \in DOMAIN page_frequency' <=> q \in DOMAIN page_frequency
        /\ q \in DOMAIN page_frequency => page_frequency'[q] = page_frequency[q]

C13_AdmissionScore ==
    [][\A p \in ids, f \in AddFrequencies, fresh \in BOOLEAN :
          (Add(p, f, fresh) /\ RGt(f, Zero) /\ p \notin DOMAIN page_frequency) =>
              LET m == IF page_frequency = EmptyRows THEN Zero
                       ELSE GetMinScore(page_frequency)
              IN  /\ p \in DOMAIN page_frequency'
                  /\ page_frequency'[p].frequency = f
                  /\ page_frequency'[p].score =
                         IF fresh THEN RAdd(m, RDiv(One, f)) ELSE m
                  /\ \A q \in DOMAIN page_frequency :
                         RLe(m, page_frequency[q].score)
                  /\ OtherRowsUnchanged({p})]_vars

\* a row admitted at the lowest score of rows that were drawn, beside a row
\* admitted above it
C13_Witness ==
    \E p, q, r \in DOMAIN page_frequency :
        /\ selected[r] > 0
        /\ selected[p] = 0
        /\ selected[q] = 0
        /\ page_frequency[p].score # Zero
        /\ RLt(page_frequency[p].score, page_frequency[q].score)
        /\ RLe(page_frequency[p].score, page_frequency[r].score)

\* C14: set(p, f) on a row of frequency f_old: for f > 0 the frequency
\* becomes f and the score becomes score - 1/f_old + 1/f, for f = 0 the row
\* is deleted; no other row changes
C14_SetFrequency ==
    [][\A p \in ids, f \in Frequencies \cup {Zero} :
          (Set(p, f) /\ p \in DOMAIN page_frequency) =>
              /\ IF f = Zero
                 THEN p \notin DOMAIN page_frequency'
                 ELSE /\ p \in DOMAIN page_frequency'
                      /\ page_frequency'[p].frequency = f
                      /\ page_frequency'[p].score =
                             RAdd(RSub(page_frequency[p].score,
                                       RDiv(One, page_frequency[p].frequency)),
                                  RDiv(One, f))
              /\ OtherRowsUnchanged({p})]_vars

\* a row drawn, then set to another frequency, beside an untouched row
C14_Witness ==
    \E p, q \in DOMAIN page_frequency :
        /\ selected[p] = 1
        /\ page_frequency[p].frequency = FromInt(4)
        /\ page_frequency[p].score = <<5, 4>>
        /\ selected[q] = 0

\* C15: add(p, f) with f <= 0 leaves the set of rows, every frequency and
\* every score as they were
C15_AddNoFrequency ==
    [][\A p \in ids, f \in AddFrequencies, fresh \in BOOLEAN :
          (Add(p, f, fresh) /\ RLe(f, Zero)) =>
              page_frequency' = page_frequency]_vars

\* a page that was passed to a call and is in no row, beside a row
C15_Witness ==
    /\ n_ops = 2
    /\ Cardinality(DOMAIN page_frequency) = 1
    /\ Cardinality(DOMAIN selected) = 2

\* C16: delete(p) and set(p, 0) leave no row of p, whatever its frequency
\* was, and no get_next_pages call returns a page that is in no row: a
\* deleted page is not drawn again before it is added again
C16_DeletedNeverScheduled ==
    [][/\ \A p \in ids : (Delete(p) \/ Set(p, Zero)) =>
              p \notin DOMAIN page_frequency'
       /\ \A p \in DOMAIN selected :
              p \notin DOMAIN page_frequency => selected'[p] = selected[p]]_vars

\* a page drawn, deleted, and not drawn in the draws that followed
C16_Witness ==
    \E p \in DOMAIN selected \ DOMAIN page_frequency :
        /\ selected[p] = 1
        /\ Draws = MaxCallDraws
        /\ \E q \in DOMAIN page_frequency : selected[q] >= 2

(***************************************************************************)
(* The update call.                                                        *)
(***************************************************************************)
\* the elements of a list
Range(seq) == {seq[i] : i \in 1..Len(seq)}

\* C17: update(n_iter) returns a pair of lists for every n_iter >= 0 and every
\* content of the graph and score stores (an empty store, pages without
\* successors or predecessors, cycles): no call ends by raising
C17_UpdateTotal ==
    ret # UnboundLocalError

\* C18: update(n_iter) returns (H, A), H being exactly the set of pages that
\* received a hub update during the call and A exactly the set of pages that
\* received an authority update during the call, over all n_iter iterations
C18_UpdateReturnsUpdated ==
    (pc = "idle" /\ ret # None /\ ret # UnboundLocalError) =>
        /\ Range(ret.h) = h_done
        /\ Range(ret.a) = a_done

\* C20: in each iteration of update every hub and authority update of the
\* iteration's batch happens before the virtual-page step, and the
\* virtual-page step happens exactly once, as the last action of the
\* iteration
C20_VirtualPageLast ==
    [][/\ UpdateVirtual => (idx = Len(mixed) + 1 /\ v_done = 0)
       /\ UpdateEntry => v_done = 0
       /\ ((UpdateSelect \/ UpdateEnd) /\ mixed # None) => v_done = 1]_vars

\* a call of two iterations has returned; hub and authority updates were made
\* in a store the virtual-page steps have added cash to
C20_Witness ==
    /\ pc = "idle"
    /\ ret # None
    /\ entered.n_iter = 2
    /\ v_done = 1
    /\ h_done # {}
    /\ a_done # {}
    /\ h_cash_increase # Zero

(***************************************************************************)
(* Lookups.                                                                *)
(***************************************************************************)
\* C19: get_scores(p) for a page without a score record does not fail: it
\* does to the engine and the store exactly what add_page(p) does, the record
\* of p reads back as (0, 1, now, 0, 1, now), the page count grows by one, no
\* other record changes, and the pair returned is (0, 0)
C19_LookupCreates ==
    [][\A p \in ids : (GetScores(p) /\ p \notin DOMAIN rows) =>
          /\ AddPage(p)
          /\ DbGet(NextDb, p) = HitsScore(Zero, One, time, Zero, One, time)
          /\ n_pages' = n_pages + 1
          /\ DOMAIN rows' = DOMAIN rows \cup {p}
          /\ \A q \in DOMAIN rows : DbGet(NextDb, q) = DbGet(CurDb, q)
          /\ GetScoresResult(CurEngine, p) = [h_rel |-> Zero, a_rel |-> Zero]]_vars

\* a page created after another page gained history: its scores are (0, 0)
\* while the totals are not 0
C19_Witness ==
    \E p \in DOMAIN rows :
        /\ DbGet(CurDb, p) = HitsScore(Zero, One, time, Zero, One, time)
        /\ RGt(h_total, Zero)
        /\ RGt(a_total, Zero)
        /\ n_pages = 2
        /\ GetScoresResult(CurEngine, p) = [h_rel |-> Zero, a_rel |-> Zero]

(***************************************************************************)
(* Iterating over the score store.                                         *)
(***************************************************************************)
\* C21: for every stored page and any accumulated deltas, the record
\* iteritems yields for the page equals get(page) in all six fields: h_cash
\* shifted by the hub delta, a_cash by the authority delta
C21_IterItemsAsGet ==
    connected =>
        \A p \in DOMAIN rows : DbIterItems(CurDb)[p] = DbGet(CurDb, p)

(***************************************************************************)
(* The authority step.                                                     *)
(***************************************************************************)
\* the step is the authority update of page p
AuthorityStep(p) == UpdateEntry /\ ~mixed[idx].hub /\ mixed[idx].page = p

\* the step is the hub update of page p
HubStep(p) == UpdateEntry /\ mixed[idx].hub /\ mixed[idx].page = p

\* C22: an authority update on a page of relevance 0 with at least one
\* predecessor changes the h_cash of no predecessor and adds the whole of the
\* page's a_cash to the virtual page's h_cash
C22_IrrelevantSendsNothingBack ==
    [][\A p \in ids :
          (AuthorityStep(p) /\ RelevanceGet(p) = Zero /\ Predecessors(p) # {}) =>
              /\ \A q \in (Predecessors(p) \cap DOMAIN rows) \ {p} :
                     DbGet(NextDb, q).h_cash = DbGet(CurDb, q).h_cash
              /\ virtual_page'.h_cash =
                     RAdd(virtual_page.h_cash, DbGet(CurDb, p).a_cash)]_vars

\* C23: for every page with N >= 1 predecessors and its relevance r in
\* [0, 1], the shares an authority update of the page distributes are not
\* negative: z(r, N) >= 0 for each predecessor and 1 - z(r, N)*N >= 0 for
\* the virtual page
C23_SharesNonNegative ==
    \A p \in DOMAIN rows :
        LET N == Cardinality(Predecessors(p))
            z == ZShare(RelevanceOf(p), N)
        IN  N >= 1 =>
                /\ RGe(z, Zero)
                /\ RGe(RSub(One, RMul(z, FromInt(N))), Zero)

(***************************************************************************)
(* Self-loops.                                                             *)
(***************************************************************************)
\* C24: update(n) on a graph extended with edges p -> p leaves, for every
\* page, the same histories, cash values and last-update times, the same
\* totals and the same virtual time as update(n) on the graph without them
C24_SelfLoopsIgnored ==
    [][(Pending /\ UpdateStep) =>
          /\ DOMAIN rows' = DOMAIN twin.e.db.rows
          /\ \A q \in DOMAIN rows' : DbGet(NextDb, q) = DbGet(twin.e.db, q)
          /\ h_total' = twin.e.h_total
          /\ a_total' = twin.e.a_total
          /\ time' = twin.e.time]_vars

(***************************************************************************)
(* The hub step.                                                           *)
(***************************************************************************)
\* the history a drain of cash leaves at time now, in a record of history
\* history last drained at time last
Rolled(history, cash, last, now) ==
    IF time_window = Zero THEN RAdd(history, cash)
    ELSE LET f == RDiv(RSub(now, last), time_window)
         IN  IF RLt(f, One) THEN RAdd(RMul(history, RSub(One, f)), cash)
             ELSE RDiv(cash, f)

\* C25: a hub update on page p with h_cash = c and k successors adds c/(k+1)
\* to the a_cash of each successor and to the virtual page's a_cash, sets
\* p's h_cash to 0 and h_last to the virtual time at the start of the step,
\* rolls c into h_history, and leaves p's a_history, a_cash and a_last and
\* every h-field of every other page unchanged
C25_HubStep ==
    [][\A p \in ids : HubStep(p) =>
          LET old == DbGet(CurDb, p)
              new == DbGet(NextDb, p)
              succ == Successors(p)
              share == RDiv(old.h_cash, FromInt(Cardinality(succ) + 1))
          IN  /\ \A q \in succ \cap DOMAIN rows :
                     DbGet(NextDb, q).a_cash = RAdd(DbGet(CurDb, q).a_cash, share)
              /\ virtual_page'.a_cash = RAdd(virtual_page.a_cash, share)
              /\ new.h_cash = Zero
              /\ new.h_last = time
              /\ new.h_history = Rolled(old.h_history, old.h_cash, old.h_last, time)
              /\ new.a_history = old.a_history
              /\ new.a_cash = old.a_cash
              /\ new.a_last = old.a_last
              /\ \A q \in DOMAIN rows \ {p} :
                     /\ DbGet(NextDb, q).h_history = DbGet(CurDb, q).h_history
                     /\ DbGet(NextDb, q).h_cash = DbGet(CurDb, q).h_cash
                     /\ DbGet(NextDb, q).h_last = DbGet(CurDb, q).h_last]_vars

\* the closed form of the share of one predecessor
ClosedZ(r, N) ==
    IF N = 0 THEN Zero
    ELSE RMul(RDiv(RMul(FromInt(2), r), FromInt(N)),
              RAdd(RMul(RDiv(FromInt(2 * N), FromInt(N + 1)), RSub(One, r)),
                   RSub(r, Half)))

\* C26: an authority update on page p with a_cash = c, N predecessors and
\* relevance r (0.5 when unknown) adds c*z to the h_cash of each predecessor
\* and c*(1 - z*N) to the virtual page's h_cash, with
\* z = (2r/N)*((2N/(N+1))*(1-r) + (r-0.5)) for N > 0 and z = 0 for N = 0, so
\* that z = 1/N at r = 1, z = 1/(N+1) at r = 0.5, and with N = 0 all of c
\* goes to the virtual page
C26_AuthorityStep ==
    [][\A p \in ids : AuthorityStep(p) =>
          LET c == DbGet(CurDb, p).a_cash
              pred == Predecessors(p)
              N == Cardinality(pred)
              r == IF RelevanceGet(p) = NoValue THEN Half ELSE RelevanceGet(p)
              z == ClosedZ(r, N)
          IN  /\ \A q \in pred \cap DOMAIN rows :
                     DbGet(NextDb, q).h_cash =
                         RAdd(DbGet(CurDb, q).h_cash, RMul(c, z))
              /\ virtual_page'.h_cash =
                     RAdd(virtual_page.h_cash,
                          RMul(c, RSub(One, RMul(z, FromInt(N)))))
              /\ (N > 0 /\ r = One) => z = RDiv(One, FromInt(N))
              /\ (N > 0 /\ r = Half) => z = RDiv(One, FromInt(N + 1))
              /\ N = 0 => virtual_page'.h_cash = RAdd(virtual_page.h_cash, c)]_vars

(***************************************************************************)
(* The batch of an iteration.                                              *)
(***************************************************************************)
\* the (page, kind) entries of a list
Kinds(seq) == {<<seq[i].page, seq[i].hub>> : i \in 1..Len(seq)}

\* the cash a (page, kind) entry holds in the store
CashOf(page_id, is_hub) ==
    IF is_hub THEN DbGet(CurDb, page_id).h_cash ELSE DbGet(CurDb, page_id).a_cash

\* C27: with U the set of pages marked at the start of update and
\* k = 20*max(1, |U|), the list an iteration builds holds at most k (page,
\* kind) entries, each at most once, with the cash they hold at the start of
\* the iteration, in non-increasing order of that cash; they are as many of
\* the entries of largest cash as k allows; and the entries are processed one
\* by one in the order of the list
C27_BatchSelection ==
    [][/\ UpdateSelect =>
             LET k == BatchFactor * Max(1, Cardinality(Range(to_update)))
                 all == (DOMAIN rows) \X BOOLEAN
             IN  /\ Len(mixed') <= k
                 /\ Len(mixed') = Min(k, Cardinality(all))
                 /\ Cardinality(Kinds(mixed')) = Len(mixed')
                 /\ Kinds(mixed') \subseteq all
                 /\ \A i \in 1..Len(mixed') :
                        mixed'[i].cash = CashOf(mixed'[i].page, mixed'[i].hub)
                 /\ \A i, j \in 1..Len(mixed') :
                        i < j => RGe(mixed'[i].cash, mixed'[j].cash)
                 /\ \A x \in Kinds(mixed'), y \in all \ Kinds(mixed') :
                        RGe(CashOf(x[1], x[2]), CashOf(y[1], y[2]))
       /\ UpdateEntry => (idx' = idx + 1 /\ mixed' = mixed)]_vars

(***************************************************************************)
(* The virtual-page step.                                                  *)
(***************************************************************************)
\* C28: when at least one page is known, the virtual-page step adds
\* virtual.a_cash/n to the h_cash and virtual.h_cash/n to the a_cash of every
\* one of the n real pages, rolls both cash fields of the virtual page into
\* its history and sets them to 0, and changes no history of a real page; so
\* after every iteration of update over a store with pages the virtual page
\* has h_cash = 0 and a_cash = 0
C28_VirtualPageStep ==
    [][/\ (UpdateVirtual /\ n_pages > 0) =>
             LET n == FromInt(Cardinality(DOMAIN rows))
             IN  /\ \A p \in DOMAIN rows :
                        /\ DbGet(NextDb, p).h_cash =
                               RAdd(DbGet(CurDb, p).h_cash,
                                    RDiv(virtual_page.a_cash, n))
                        /\ DbGet(NextDb, p).a_cash =
                               RAdd(DbGet(CurDb, p).a_cash,
                                    RDiv(virtual_page.h_cash, n))
                        /\ DbGet(NextDb, p).h_history = DbGet(CurDb, p).h_history
                        /\ DbGet(NextDb, p).a_history = DbGet(CurDb, p).a_history
                 /\ DOMAIN rows' = DOMAIN rows
                 /\ virtual_page'.h_history =
                        Rolled(virtual_page.h_history, virtual_page.h_cash,
                               virtual_page.h_last, time)
                 /\ virtual_page'.a_history =
                        Rolled(virtual_page.a_history, virtual_page.a_cash,
                               virtual_page.a_last, time)
                 /\ virtual_page'.h_cash = Zero
                 /\ virtual_page'.a_cash = Zero
       /\ (pc' = "loop" /\ mixed' # None /\ n_pages' > 0) =>
             (virtual_page'.h_cash = Zero /\ virtual_page'.a_cash = Zero)]_vars

\* two iterations over two pages are done: the second virtual-page step
\* found cash the batch had given to the virtual page
C28_Witness ==
    /\ pc = "loop"
    /\ rounds = 0
    /\ entered.n_iter = 2
    /\ n_pages = 2
    /\ virtual_page.h_cash = Zero
    /\ virtual_page.a_cash = Zero
    /\ RGt(virtual_page.h_history, One)
    /\ RGt(virtual_page.a_history, One)
    /\ edges # {}

(***************************************************************************)
(* The history roll.                                                       *)
(***************************************************************************)
\* C29: draining cash C at virtual time now from a record with history H last
\* drained at time last leaves, with a time window W > 0 and
\* f = (now - last)/W, the history H*(1 - f) + C when f < 1 and C/f when
\* f >= 1, and with no window the history H + C; now is the virtual time at
\* the start of the step and becomes the record's time of last drain
C29_HistoryRoll ==
    [][\A p \in ids :
          /\ HubStep(p) =>
                LET old == DbGet(CurDb, p)
                    new == DbGet(NextDb, p)
                    f == RDiv(RSub(time, old.h_last), time_window)
                IN  /\ time_window = Zero =>
                          new.h_history = RAdd(old.h_history, old.h_cash)
                    /\ (time_window # Zero /\ RLt(f, One)) =>
                          new.h_history =
                              RAdd(RMul(old.h_history, RSub(One, f)), old.h_cash)
                    /\ (time_window # Zero /\ RGe(f, One)) =>
                          new.h_history = RDiv(old.h_cash, f)
                    /\ new.h_last = time
          /\ AuthorityStep(p) =>
                LET old == DbGet(CurDb, p)
                    new == DbGet(NextDb, p)
                    f == RDiv(RSub(time, old.a_last), time_window)
                IN  /\ time_window = Zero =>
                          new.a_history = RAdd(old.a_history, old.a_cash)
                    /\ (time_window # Zero /\ RLt(f, One)) =>
                          new.a_history =
                              RAdd(RMul(old.a_history, RSub(One, f)), old.a_cash)
                    /\ (time_window # Zero /\ RGe(f, One)) =>
                          new.a_history = RDiv(old.a_cash, f)
                    /\ new.a_last = time]_vars

\* with a window, a hub step has just drained cash C > 0 from a page and left
\* a history below C although the page had history before: more than one
\* window had passed since its last drain
C29_Witness ==
    /\ time_window # Zero
    /\ pc = "batch"
    /\ idx > 1
    /\ mixed[idx - 1].hub
    /\ LET s == DbGet(CurDb, mixed[idx - 1].page)
           C == RSub(time, s.h_last)
       IN  /\ s.h_cash = Zero
           /\ RGt(C, Zero)
           /\ RGt(s.h_history, Zero)
           /\ RLt(s.h_history, C)

(***************************************************************************)
(* The pages of highest cash.                                              *)
(***************************************************************************)
\* the page ids of a set of (page id, cash) pairs
PagesOf(pairs) == {x[1] : x \in pairs}

\* C30: after any sequence of add, set, increase_h_cash, increase_a_cash and
\* increase_all_cash, get_highest_h_cash(n) returns min(n, row count) pairs
\* (p, c), one per page, with c = get(p).h_cash, no page left out has a larger
\* h_cash than a returned one, and the order of the column is the order of
\* the cash get reports, so that the answer comes in non-increasing order of
\* c; symmetrically for get_highest_a_cash
C30_HighestCash ==
    connected =>
      \A n \in 0..(MaxPages + 1) :
        LET hs == GetHighestHCash(CurDb, n)
            as == GetHighestACash(CurDb, n)
            count == Cardinality(DOMAIN rows)
        IN  /\ Cardinality(hs) = Min(n, count)
            /\ Cardinality(PagesOf(hs)) = Min(n, count)
            /\ PagesOf(hs) \subseteq DOMAIN rows
            /\ \A x \in hs : x[2] = DbGet(CurDb, x[1]).h_cash
            /\ \A S \in HighestHSets(CurDb, n) :
                   \A q \in S, o \in (DOMAIN rows) \ S :
                       RGe(DbGet(CurDb, q).h_cash, DbGet(CurDb, o).h_cash)
            /\ \A q, o \in DOMAIN rows :
                   RGe(rows[q].h_cash, rows[o].h_cash)
                       <=> RGe(DbGet(CurDb, q).h_cash, DbGet(CurDb, o).h_cash)
            /\ Cardinality(as) = Min(n, count)
            /\ Cardinality(PagesOf(as)) = Min(n, count)
            /\ PagesOf(as) \subseteq DOMAIN rows
            /\ \A x \in as : x[2] = DbGet(CurDb, x[1]).a_cash
            /\ \A S \in HighestASets(CurDb, n) :
                   \A q \in S, o \in (DOMAIN rows) \ S :
                       RGe(DbGet(CurDb, q).a_cash, DbGet(CurDb, o).a_cash)
            /\ \A q, o \in DOMAIN rows :
                   RGe(rows[q].a_cash, rows[o].a_cash)
                       <=> RGe(DbGet(CurDb, q).a_cash, DbGet(CurDb, o).a_cash)

\* two rows and increases of all cash on both sides: no column holds the cash
\* get reports, and the page of highest h_cash is not the page of highest
\* a_cash
C30_Witness ==
    /\ connected
    /\ DOMAIN rows = {1, 2}
    /\ h_cash_increase # Zero
    /\ a_cash_increase # Zero
    /\ RGt(DbGet(CurDb, 1).h_cash, DbGet(CurDb, 2).h_cash)
    /\ RLt(DbGet(CurDb, 1).a_cash, DbGet(CurDb, 2).a_cash)
    /\ GetHighestHCash(CurDb, 1) = {<<1, DbGet(CurDb, 1).h_cash>>}
    /\ GetHighestACash(CurDb, 1) = {<<2, DbGet(CurDb, 2).a_cash>>}
    /\ n_ops >= 4

(***************************************************************************)
(* The lag of a row behind the lowest score.                               *)
(***************************************************************************)
\* C31: from the empty table, after any sequence of add (fresh or not),
\* delete and get_next_pages(1), every row has a positive frequency and a
\* score between m and m + 1/frequency, m the lowest score of the table
C31_LagBound ==
    LET m == GetMinScore(page_frequency)
    IN  \A p \in DOMAIN page_frequency :
            /\ RGt(page_frequency[p].frequency, Zero)
            /\ RLe(m, page_frequency[p].score)
            /\ RLe(page_frequency[p].score,
                   RAdd(m, RDiv(One, page_frequency[p].frequency)))

\* after draws, one row is a whole period behind the lowest score and another
\* row lies strictly between the lowest score and its bound
C31_Witness ==
    LET m == GetMinScore(page_frequency)
    IN  /\ Draws >= 2
        /\ \E p, q \in DOMAIN page_frequency :
               /\ p # q
               /\ page_frequency[p].frequency # page_frequency[q].frequency
               /\ page_frequency[p].score =
                      RAdd(m, RDiv(One, page_frequency[p].frequency))
               /\ RLt(m, page_frequency[q].score)
               /\ RLt(page_frequency[q].score,
                      RAdd(m, RDiv(One, page_frequency[q].frequency)))

(***************************************************************************)
(* Every row is drawn again and again.                                     *)
(***************************************************************************)
\* the draws of page q that may come before the next draw of page p: one for
\* every score of q, from its present one on, that is not above the score of p
DrawsAhead(p, q) ==
    LET lag == RMul(RSub(page_frequency[p].score, page_frequency[q].score),
                    page_frequency[q].frequency)
    IN  IF RLt(lag, Zero) THEN 0 ELSE (lag[1] \div lag[2]) + 1

\* the draws of other pages that may come before the next draw of page p
Wait(p) == Sum([q \in DOMAIN page_frequency \ {p} |-> DrawsAhead(p, q)],
               DOMAIN page_frequency \ {p})

\* the rows are fixed, page p is in the table, and the draws left are enough
\* for the pages ahead of p and for p
Waiting(p) ==
    /\ Draws >= 1
    /\ p \in DOMAIN page_frequency
    /\ Draws + Wait(p) < MaxDraws

\* page p has been returned an odd number of times
OddReturns(p) == p \in DOMAIN selected /\ selected[p] % 2 = 1

\* C32: while the rows and their positive frequencies stay fixed and
\* get_next_pages(1) is called again and again, every row of the table is
\* returned, and after each return it is returned once more: the number of
\* times a row has been returned, which a call raises by one at most, goes
\* from even to odd and from odd to even again and again
C32_NoStarvation ==
    \A p \in 1..MaxFreqPages :
        /\ (Waiting(p) /\ ~OddReturns(p)) ~> OddReturns(p)
        /\ (Waiting(p) /\ OddReturns(p)) ~> ~OddReturns(p)

\* three rows of both frequencies, and the slow rows have been returned
\* twice while the fast row was returned more often
C32_Witness ==
    /\ DOMAIN page_frequency = 1..MaxFreqPages
    /\ \E p, q \in DOMAIN page_frequency :
           RLt(page_frequency[p].frequency, page_frequency[q].frequency)
    /\ \A p \in DOMAIN page_frequency : selected[p] >= 2
    /\ \E p \in DOMAIN page_frequency : selected[p] > 2

(***************************************************************************)
(* Adding a page again.                                                    *)
(***************************************************************************)
\* C33: add(p, f), fresh or not, for a page p that has a row leaves the
\* frequency and the score of that row and every other row as they were
C33_ReAddChangesNothing ==
    [][\A p \in ids, f \in AddFrequencies, fresh \in BOOLEAN :
          (Add(p, f, fresh) /\ p \in DOMAIN page_frequency) =>
              /\ DOMAIN page_frequency' = DOMAIN page_frequency
              /\ page_frequency'[p].frequency = page_frequency[p].frequency
              /\ page_frequency'[p].score = page_frequency[p].score
              /\ OtherRowsUnchanged({p})]_vars

\* two pages were added and one of them drawn, and a third call named one of
\* the two again: both rows are where the two adds and the draw left them
C33_Witness ==
    \E p, q \in DOMAIN page_frequency :
        /\ p # q
        /\ n_ops = 3
        /\ DOMAIN selected = {p, q}
        /\ selected[p] = 1
        /\ selected[q] = 0
        /\ page_frequency[p] = FreqRow(FromInt(4), Half)
        /\ page_frequency[q] = FreqRow(One, <<5, 4>>)

====
